---------------------------- MODULE Spec2Model ----------------------------
(***************************************************************************)
(* Carbon attribution, eco scoring and forecasting of the Ecopay dashboard *)
(* (src/module1.py), and the chats of src/module1.py and src/module2.py.   *)
(*                                                                         *)
(* Numbers.  Emission factors are kept in thousandths of a kg per rupee    *)
(* (0.15 is 150), carbon masses in thousandths of a kg (milli-kg) and      *)
(* amounts in rupees, so that amount * factor is exact.  A float that may  *)
(* be NaN is a record [nan, val]; a quotient is a record [nan, num, den].  *)
(* All arithmetic is exact rational arithmetic: the rounding of IEEE       *)
(* doubles is not part of the model.                                       *)
(*                                                                         *)
(* Strings that the code searches for a substring are sequences of         *)
(* one-character strings.                                                  *)
(***************************************************************************)
EXTENDS Integers, Sequences, FiniteSets, TLC

VARIABLES
    row,            \* SpecEngine: the transaction given to the engine
    factor,         \* SpecEngine: Emission_Factor of the row (thousandths)
    carbon_mass,    \* SpecEngine: Carbon_Footprint_kg of the row (milli-kg)
    eco_score,      \* SpecEngine: Eco_Score of the row
    pc,             \* SpecEngine: "start", "attributed", "scored", "error"
    calls,          \* SpecScore: the calls of calculate_eco_score made so far
    daily_emissions,\* SpecForecast: the argument of plot_forecast
    fig_forecast,   \* SpecForecast: what plot_forecast returned
    fpc,            \* SpecForecast: "start", "done"
    csv,            \* Spec: the file 'Daily Household Transactions.csv'
    data_df,        \* Spec: the table load_data returned
    date_range,     \* Spec: the value of the 'Analysis Period' date_input
    filtered_df,    \* Spec: the per-render attributed copy
    total_carbon,   \* Spec: filtered_df['Carbon_Footprint_kg'].sum()
    shown,          \* Spec: what this run of main() put on the page
    rpc,            \* Spec: "init", "halted", "error", "rendered"
    messages,       \* SpecChat: st.session_state.messages of module1
    latest_audio,   \* SpecChat: st.session_state.latest_audio of module1
    chat_messages,  \* SpecChat: st.session_state.chat_messages of module2
    rerun_pending,  \* SpecChat: module2 called st.rerun() and has not run yet
    chat_error,     \* SpecChat: the last run of the chat showed an st.error
    groq,           \* SpecChat: the calls of chat.completions.create so far
    env_urls,       \* SpecWake: os.environ.get("STREAMLIT_APP_URLS")
    urls,           \* SpecWake: what get_urls() returned
    driver,         \* SpecWake: "none", "live", "quit"
    quits,          \* SpecWake: the calls of driver.quit() so far
    visited,        \* SpecWake: the urls given to driver.get, in order
    interrupted,    \* SpecWake: an exception has escaped the URL loop
    exit_status,    \* SpecWake: the status the script ended with
    wpc,            \* SpecWake: the position of main() of src/main.py
    cart,           \* SpecCart: st.session_state.cart of module2
    current_footprint, \* SpecCart: what load_user_footprint() returns
    shown_cart,     \* SpecCart: the cart figures on the page
    last_op,        \* SpecCart: the interaction the last run handled
    request,        \* SpecCalc: the JSON body of the POST request
    tie_up,         \* SpecCalc: round(x, 2) of a decimal tie goes up
    response_app,   \* SpecCalc: the response of src/app.py
    response_api    \* SpecCalc: the response of src/api/index.py

engineVars == <<row, factor, carbon_mass, eco_score, pc>>
scoreVars == <<calls>>
forecastVars == <<daily_emissions, fig_forecast, fpc>>
renderVars == <<csv, data_df, date_range, filtered_df, total_carbon, shown, rpc>>
chatVars == <<messages, latest_audio, chat_messages, rerun_pending, chat_error, groq>>
wakeVars == <<env_urls, urls, driver, quits, visited, interrupted, exit_status, wpc>>
cartVars == <<cart, current_footprint, shown_cart, last_op>>
calcVars == <<request, tie_up, response_app, response_api>>

-----------------------------------------------------------------------------
(* Bounds of the model *)

MaxAmountStep == 4      \* amounts 0, 250, .., 250 * MaxAmountStep rupees
MaxMassStep == 3        \* direct carbon masses -7 kg * k .. 7 kg * k
MaxDirectAmount == 3    \* direct amounts -100 * k .. 100 * k rupees
MaxPoints == 6          \* rows of a daily_emissions table
MaxTick == 6            \* timestamps 0..MaxTick of a daily_emissions table
MaxTimeOfDay == 1       \* times of day 0 (midnight) .. MaxTimeOfDay

-----------------------------------------------------------------------------
(* Floats *)

NaN == [nan |-> TRUE, val |-> 0]
Num(n) == [nan |-> FALSE, val |-> n]

\* float * float constant (NaN propagates)
FMul(x, k) == IF x.nan THEN NaN ELSE Num(x.val * k)

\* x == 0 in Python: false for NaN
IsZero(x) == ~x.nan /\ x.val = 0

\* x / y as a quotient with a positive denominator; divzero marks a division
\* by zero (ZeroDivisionError)
FDiv(x, y) ==
    IF IsZero(y) THEN [divzero |-> TRUE, nan |-> FALSE, num |-> 0, den |-> 1]
    ELSE IF x.nan \/ y.nan
        THEN [divzero |-> FALSE, nan |-> TRUE, num |-> 0, den |-> 1]
    ELSE IF y.val < 0
        THEN [divzero |-> FALSE, nan |-> FALSE, num |-> -x.val, den |-> -y.val]
    ELSE [divzero |-> FALSE, nan |-> FALSE, num |-> x.val, den |-> y.val]

-----------------------------------------------------------------------------
(* Strings as sequences of characters *)

S_Train == <<"T", "r", "a", "i", "n">>
S_Air == <<"A", "i", "r">>
S_auto == <<"a", "u", "t", "o">>
S_Vegetables == <<"V", "e", "g", "e", "t", "a", "b", "l", "e", "s">>
S_Meat == <<"M", "e", "a", "t">>
S_RedMeat == <<"R", "e", "d", " ", "M", "e", "a", "t">>
S_Meats == <<"M", "e", "a", "t", "s">>
S_meat == <<"m", "e", "a", "t">>
S_Mea == <<"M", "e", "a">>
S_General == <<"G", "e", "n", "e", "r", "a", "l">>
S_Empty == <<>>

\* a str value and a value that is no str (a number in the Subcategory column)
Str(s) == [str |-> TRUE, chars |-> s]
NotAStr == [str |-> FALSE, chars |-> <<>>]

\* pat in s, for Python strings
Contains(s, pat) ==
    \E i \in 0..(Len(s) - Len(pat)) : SubSeq(s, i + 1, i + Len(pat)) = pat

-----------------------------------------------------------------------------
(* CarbonScoringEngine *)

EMISSION_FACTORS ==
    [c \in {"Transportation", "Food", "Utilities", "Household", "Apparel",
            "Education", "Health", "Personal Development", "Festivals",
            "subscription", "Other"} |->
        CASE c = "Transportation" -> 150
          [] c = "Food" -> 60
          [] c = "Utilities" -> 200
          [] c = "Household" -> 80
          [] c = "Apparel" -> 100
          [] c = "Education" -> 10
          [] c = "Health" -> 30
          [] c = "Personal Development" -> 10
          [] c = "Festivals" -> 50
          [] c = "subscription" -> 5
          [] c = "Other" -> 50]

SUBCATEGORY_FACTORS ==
    [s \in {S_Train, S_Air, S_auto, S_Vegetables, S_Meat} |->
        CASE s = S_Train -> 40
          [] s = S_Air -> 250
          [] s = S_auto -> 120
          [] s = S_Vegetables -> 30
          [] s = S_Meat -> 150]

DEFAULT_FACTOR == 50            \* 0.05, the default of EMISSION_FACTORS.get
MEAT_FACTOR == 120              \* 0.12, the 'Meat' in subcategory heuristic
INTENSITY_PENALTY == 400        \* score = 100 - intensity * 400
PERFECT_SCORE == 100

\* row.get(key, default)
Get(r, key, default) == IF key \in DOMAIN r THEN r[key] ELSE default

\* subcategory in SUBCATEGORY_FACTORS
InSubcategoryFactors(subcategory) ==
    subcategory.str /\ subcategory.chars \in DOMAIN SUBCATEGORY_FACTORS

\* ResolveFactor with the 'Meat' heuristic tried before the exact match
ResolveFactor_MeatFirst(category, subcategory) ==
    IF subcategory.str /\ Contains(subcategory.chars, S_Meat)
        THEN MEAT_FACTOR
    ELSE IF InSubcategoryFactors(subcategory)
        THEN SUBCATEGORY_FACTORS[subcategory.chars]
    ELSE IF category \in DOMAIN EMISSION_FACTORS
        THEN EMISSION_FACTORS[category]
    ELSE DEFAULT_FACTOR

\* the factor calculate_footprint resolves for a row
ResolveFactor(category, subcategory) ==
    IF InSubcategoryFactors(subcategory)
        THEN SUBCATEGORY_FACTORS[subcategory.chars]
    ELSE IF subcategory.str /\ Contains(subcategory.chars, S_Meat)
        THEN MEAT_FACTOR
    ELSE IF category \in DOMAIN EMISSION_FACTORS
        THEN EMISSION_FACTORS[category]
    ELSE DEFAULT_FACTOR

\* calculate_footprint with the mass taken from the category factor, the
\* subcategory override reaching the returned factor only
calculate_footprint_CategoryMass(r) ==
    LET category == Get(r, "Category", "Other")
        subcategory == Get(r, "Subcategory", Str(S_Empty))
        amount == Get(r, "Amount", Num(0))
        f == ResolveFactor(category, subcategory)
        g == IF category \in DOMAIN EMISSION_FACTORS
                THEN EMISSION_FACTORS[category] ELSE DEFAULT_FACTOR
    IN  <<f, FMul(amount, g)>>

\* calculate_footprint(row): <<factor, carbon_mass>>
calculate_footprint(r) ==
    LET category == Get(r, "Category", "Other")
        subcategory == Get(r, "Subcategory", Str(S_Empty))
        amount == Get(r, "Amount", Num(0))
        f == ResolveFactor(category, subcategory)
    IN  <<f, FMul(amount, f)>>

\* ScoreOfIntensity with the penalty added instead of subtracted
ScoreOfIntensity_Plus(q) ==
    LET n == PERFECT_SCORE * 1000 * q.den + INTENSITY_PENALTY * q.num
        d == 1000 * q.den
    IN  IF q.nan \/ n <= 0 THEN 0 ELSE n \div d

\* int(max(0, 100 - intensity * 400)) for intensity = q.num / (1000 * q.den)
\* kg per rupee; max(0, x) is x only when x > 0, so NaN gives 0
ScoreOfIntensity(q) ==
    LET n == PERFECT_SCORE * 1000 * q.den - INTENSITY_PENALTY * q.num
        d == 1000 * q.den
    IN  IF q.nan \/ n <= 0 THEN 0 ELSE n \div d

\* calculate_eco_score without the amount == 0 early return
calculate_eco_score_NoGuard(cm, amount) ==
    LET intensity == FDiv(cm, amount)
    IN  IF intensity.divzero THEN [raised |-> TRUE, score |-> 0]
        ELSE [raised |-> FALSE, score |-> ScoreOfIntensity(intensity)]

\* calculate_eco_score(carbon_mass, amount): [raised, score]; raised is the
\* ZeroDivisionError of carbon_mass / amount
calculate_eco_score(cm, amount) ==
    IF IsZero(amount) THEN [raised |-> FALSE, score |-> PERFECT_SCORE]
    ELSE LET intensity == FDiv(cm, amount)
         IN  IF intensity.divzero THEN [raised |-> TRUE, score |-> 0]
             ELSE [raised |-> FALSE, score |-> ScoreOfIntensity(intensity)]

-----------------------------------------------------------------------------
(* SpecEngine: one row through calculate_footprint and calculate_eco_score, *)
(* as main() applies them to every row of filtered_df (lines 409-413).      *)

Categories == {"Transportation", "Food", "Utilities", "subscription", "Other",
               "Gadgets"}

Subcategories ==
    {Str(S_Train), Str(S_Air), Str(S_auto), Str(S_Vegetables), Str(S_Meat),
     Str(S_RedMeat), Str(S_Meats), Str(S_meat), Str(S_Mea), Str(S_General),
     Str(S_Empty), NotAStr}

Amounts ==
    {Num(250 * k) : k \in 0..MaxAmountStep} \cup {Num(3), Num(-200), NaN}

\* rows of a table with an Amount column, and of a table without one
Rows ==
    [Category : Categories, Subcategory : Subcategories, Amount : Amounts]
    \cup [Category : Categories, Subcategory : Subcategories]

NoNum == Num(0)

\* the variables of the other specifications, at rest
EngineIdle ==
    /\ row = [Category |-> "Other", Subcategory |-> Str(S_General)]
    /\ factor = 0
    /\ carbon_mass = NoNum
    /\ eco_score = 0
    /\ pc = "idle"

ScoreIdle == calls = <<>>

ForecastIdle ==
    /\ daily_emissions = <<>>
    /\ fig_forecast = [fig |-> FALSE, fitted |-> FALSE]
    /\ fpc = "idle"

RenderIdle ==
    /\ csv = [exists |-> FALSE]
    /\ data_df = <<>>
    /\ date_range = <<>>
    /\ filtered_df = <<>>
    /\ total_carbon = 0
    /\ shown = {}
    /\ rpc = "idle"

\* the chats before a page is opened
ChatIdle ==
    /\ messages = <<>>
    /\ latest_audio = 0
    /\ chat_messages = <<>>
    /\ rerun_pending = FALSE
    /\ chat_error = [module1 |-> FALSE, module2 |-> FALSE]
    /\ groq = <<>>

\* the wake-up script before it is started
WakeIdle ==
    /\ env_urls = [set |-> FALSE, val |-> <<>>]
    /\ urls = <<>>
    /\ driver = "none"
    /\ quits = 0
    /\ visited = <<>>
    /\ interrupted = FALSE
    /\ exit_status = 0
    /\ wpc = "idle"

\* the marketplace page before it is opened
CartIdle ==
    /\ cart = <<>>
    /\ current_footprint = 0
    /\ shown_cart = <<>>
    /\ last_op = [op |-> "idle"]

\* the calculator before a request
CalcIdle ==
    /\ request = <<>>
    /\ tie_up = FALSE
    /\ response_app = <<>>
    /\ response_api = <<>>

InitEngine ==
    /\ row \in Rows
    /\ factor = 0
    /\ carbon_mass = NoNum
    /\ eco_score = 0
    /\ pc = "start"
    /\ ScoreIdle
    /\ ForecastIdle
    /\ RenderIdle
    /\ ChatIdle
    /\ WakeIdle
    /\ CartIdle
    /\ CalcIdle

\* line 410-411: Emission_Factor, Carbon_Footprint_kg = calculate_footprint(x)
Attribute ==
    /\ pc = "start"
    /\ factor' = calculate_footprint(row)[1]
    /\ carbon_mass' = calculate_footprint(row)[2]
    /\ pc' = "attributed"
    /\ UNCHANGED <<row, eco_score, scoreVars, forecastVars, renderVars, chatVars,
                   wakeVars, cartVars, calcVars>>

\* line 413: Eco_Score = calculate_eco_score(x['Carbon_Footprint_kg'],
\* x['Amount']); x['Amount'] raises KeyError without an Amount column
Score ==
    /\ pc = "attributed"
    /\ IF "Amount" \in DOMAIN row
          THEN LET r == calculate_eco_score(carbon_mass, row.Amount)
               IN  /\ eco_score' = r.score
                   /\ pc' = IF r.raised THEN "error" ELSE "scored"
          ELSE /\ eco_score' = eco_score
               /\ pc' = "error"
    /\ UNCHANGED <<row, factor, carbon_mass, scoreVars, forecastVars, renderVars, chatVars,
                   wakeVars, cartVars, calcVars>>

NextEngine == Attribute \/ Score

vars ==
    <<engineVars, scoreVars, forecastVars, renderVars, chatVars, wakeVars,
      cartVars, calcVars>>

SpecEngine == InitEngine /\ [][NextEngine]_vars

\* the amount calculate_footprint reads from the row
AmountOf(r) == IF "Amount" \in DOMAIN r THEN r.Amount ELSE Num(0)

\* 'Meat' occurs in the characters s, letter by letter
HasMeat(s) ==
    \E i \in 1..(Len(s) - 3) :
        s[i] = "M" /\ s[i + 1] = "e" /\ s[i + 2] = "a" /\ s[i + 3] = "t"

\* C1: after calculate_footprint the carbon mass of the row is its amount
\* times the very factor returned with it (NaN for a NaN amount), for every
\* category, subcategory and amount.
C1_MassIsAmountTimesFactor ==
    pc \in {"attributed", "scored", "error"} =>
        IF AmountOf(row).nan
            THEN carbon_mass.nan
            ELSE ~carbon_mass.nan /\ carbon_mass.val = AmountOf(row).val * factor

\* a row whose subcategory overrides the category factor has been attributed
C1_Witness ==
    /\ pc = "attributed"
    /\ row.Category = "Transportation"
    /\ row.Subcategory = Str(S_Air)
    /\ "Amount" \in DOMAIN row
    /\ row.Amount = Num(1000)
    /\ factor = 250
    /\ carbon_mass = Num(250000)

\* C2: the factor follows the precedence exact subcategory key, then 'Meat'
\* substring (0.12), then category entry, then the fallback 0.05; a lower
\* rule never overrides a higher one that applies.
C2_FactorPrecedence ==
    pc \in {"attributed", "scored", "error"} =>
        LET sub == row.Subcategory
            exact == sub.str /\ sub.chars \in {S_Train, S_Air, S_auto, S_Vegetables, S_Meat}
            meat == sub.str /\ HasMeat(sub.chars)
            known == row.Category \in DOMAIN EMISSION_FACTORS
        IN  /\ exact => factor = SUBCATEGORY_FACTORS[sub.chars]
            /\ (~exact /\ meat) => factor = 120
            /\ (~exact /\ ~meat /\ known) => factor = EMISSION_FACTORS[row.Category]
            /\ (~exact /\ ~meat /\ ~known) => factor = 50

\* the exact key 'Meat' (0.15) has won over the 'Meat' heuristic (0.12) and
\* over the category entry
C2_Witness ==
    /\ pc = "attributed"
    /\ row.Subcategory = Str(S_Meat)
    /\ row.Category = "Food"
    /\ factor = 150

\* C3: every row that went through calculate_footprint and then
\* calculate_eco_score has an integer Eco_Score with 0 <= Eco_Score <= 100.
C3_PipelineScoreInRange ==
    pc = "scored" => eco_score \in 0..100

\* a row of the highest factor (Air, 0.25) has been scored, at the lower end
C3_Witness ==
    /\ pc = "scored"
    /\ row.Subcategory = Str(S_Air)
    /\ row.Amount = Num(-200)
    /\ eco_score = 0

\* the amount of the row is missing (no Amount column) or NaN
AmountMissingOrNaN == "Amount" \notin DOMAIN row \/ row.Amount.nan

\* the row with the amount 0 in place of its amount
WithZeroAmount ==
    [f \in DOMAIN row \cup {"Amount"} |-> IF f = "Amount" THEN Num(0) ELSE row[f]]

\* C13: a row whose amount is missing or NaN goes through attribution and
\* scoring without an error and gets the carbon mass and the eco score that
\* the same row gets with amount 0.
C13_MissingAmountIsZero ==
    AmountMissingOrNaN =>
        /\ pc /= "error"
        /\ pc \in {"attributed", "scored"} =>
                carbon_mass = calculate_footprint(WithZeroAmount)[2]
        /\ pc = "scored" =>
                eco_score = calculate_eco_score(
                                calculate_footprint(WithZeroAmount)[2], Num(0)).score

\* neither an exact subcategory key nor the 'Meat' heuristic applies to the row
NoOverride ==
    ~(row.Subcategory.str /\ (InSubcategoryFactors(row.Subcategory)
                                \/ HasMeat(row.Subcategory.chars)))

\* C15: a row of an unknown category without a subcategory override gets the
\* factor 0.05, a row of amount 0 gets the score 100, and neither ends in an
\* error (rows of a table with an Amount column).
C15_EdgeCasesOrdinary ==
    "Amount" \in DOMAIN row =>
        /\ (row.Category \notin DOMAIN EMISSION_FACTORS /\ NoOverride) =>
                /\ pc /= "error"
                /\ pc /= "start" => factor = 50
        /\ row.Amount = Num(0) =>
                /\ pc /= "error"
                /\ pc /= "start" => carbon_mass = Num(0)
                /\ pc = "scored" => eco_score = 100

\* a row of an unknown category and of amount 0 has been scored
C15_Witness ==
    /\ pc = "scored"
    /\ row.Category = "Gadgets"
    /\ row.Subcategory = Str(S_General)
    /\ "Amount" \in DOMAIN row
    /\ row.Amount = Num(0)
    /\ factor = 50
    /\ eco_score = 100

\* the row is category, subcategory, amount
IsRow(category, subcategory, amount) ==
    /\ "Amount" \in DOMAIN row
    /\ row.Category = category
    /\ row.Subcategory = Str(subcategory)
    /\ row.Amount = Num(amount)

\* C19: amount 1000, category Transportation, subcategory Air: factor 0.25,
\* carbon mass 250 kg, eco score 0.
C19_AirExample ==
    IsRow("Transportation", S_Air, 1000) =>
        /\ pc /= "error"
        /\ pc /= "start" => factor = 250 /\ carbon_mass = Num(250000)
        /\ pc = "scored" => eco_score = 0

\* the Air row has been scored
C19_Witness ==
    /\ IsRow("Transportation", S_Air, 1000)
    /\ pc = "scored"
    /\ eco_score = 0

\* C20: amount 500, category Food, subcategory Vegetables: factor 0.03,
\* carbon mass 15 kg, eco score 88.
C20_VegetablesExample ==
    IsRow("Food", S_Vegetables, 500) =>
        /\ pc /= "error"
        /\ pc /= "start" => factor = 30 /\ carbon_mass = Num(15000)
        /\ pc = "scored" => eco_score = 88

\* the Vegetables row has been scored
C20_Witness ==
    /\ IsRow("Food", S_Vegetables, 500)
    /\ pc = "scored"
    /\ eco_score = 88

-----------------------------------------------------------------------------
(* SpecScore: calculate_eco_score called directly, on any pair of numbers.  *)
(* calls keeps the last two calls, so that two results can be compared.     *)

DirectMasses == {Num(7000 * k) : k \in (-MaxMassStep)..MaxMassStep} \cup {NaN}

DirectAmounts ==
    {Num(100 * k) : k \in (-MaxDirectAmount)..MaxDirectAmount} \cup {NaN}

InitScore ==
    /\ calls = <<>>
    /\ EngineIdle
    /\ ForecastIdle
    /\ RenderIdle
    /\ ChatIdle
    /\ WakeIdle
    /\ CartIdle
    /\ CalcIdle

CallEcoScore(cm, amount) ==
    /\ Len(calls) < 2
    /\ calls' = Append(calls, [carbon_mass |-> cm, amount |-> amount,
                               result |-> calculate_eco_score(cm, amount)])
    /\ UNCHANGED <<engineVars, forecastVars, renderVars, chatVars,
                   wakeVars, cartVars, calcVars>>

NextScore == \E cm \in DirectMasses, amount \in DirectAmounts : CallEcoScore(cm, amount)

SpecScore == InitScore /\ [][NextScore]_vars

\* the calls made on two numbers (no NaN) with a non-zero amount
NumericCalls ==
    {i \in 1..Len(calls) :
        /\ ~calls[i].carbon_mass.nan
        /\ ~calls[i].amount.nan
        /\ calls[i].amount.val /= 0}

\* clamp(0, 100, 100 - (carbon_mass / amount) * 400) truncated to an integer,
\* for carbon_mass cm in milli-kg and amount a /= 0 in rupees
ClampedScore(cm, a) ==
    LET n == IF a > 0 THEN 100000 * a - 400 * cm ELSE 400 * cm - 100000 * a
        d == IF a > 0 THEN 1000 * a ELSE -(1000 * a)
    IN  IF n <= 0 THEN 0 ELSE IF n >= 100 * d THEN 100 ELSE n \div d

\* C4: for every carbon_mass and every amount /= 0, calculate_eco_score
\* returns clamp(0, 100, 100 - (carbon_mass/amount)*400) truncated to an
\* integer, so the result lies in 0..100 for all inputs of the function.
C4_ScoreIsClamped ==
    \A i \in NumericCalls :
        /\ ~calls[i].result.raised
        /\ calls[i].result.score = ClampedScore(calls[i].carbon_mass.val, calls[i].amount.val)
        /\ calls[i].result.score \in 0..100

\* intensity of call i <= intensity of call j, by cross multiplication
IntensityLeq(i, j) ==
    LET qi == FDiv(calls[i].carbon_mass, calls[i].amount)
        qj == FDiv(calls[j].carbon_mass, calls[j].amount)
    IN  qi.num * qj.den <= qj.num * qi.den

\* C5: calculate_eco_score is non-increasing in carbon intensity: of two
\* calls with non-zero amounts, the one of the lower (or equal) intensity
\* carbon_mass/amount gets the higher (or equal) score.
C5_ScoreMonotone ==
    \A i, j \in NumericCalls :
        IntensityLeq(i, j) => calls[i].result.score >= calls[j].result.score

\* two calls of different intensity got different scores, the second one
\* truncated (100 - 28/3 = 90.67 gives 90)
C5_Witness ==
    /\ Len(calls) = 2
    /\ calls[1].carbon_mass = Num(14000) /\ calls[1].amount = Num(100)
    /\ calls[2].carbon_mass = Num(7000) /\ calls[2].amount = Num(300)
    /\ calls[1].result.score = 44
    /\ calls[2].result.score = 90

\* C6: amount = 0 gives the score 100 whatever the carbon mass, as a normal
\* result: the division carbon_mass / amount is not reached.
C6_ZeroAmountScoresHundred ==
    \A i \in 1..Len(calls) :
        IsZero(calls[i].amount) =>
            ~calls[i].result.raised /\ calls[i].result.score = 100

\* calculate_eco_score has been called with amount 0 and a carbon mass that
\* is not 0
C6_Witness ==
    \E i \in 1..Len(calls) :
        /\ calls[i].amount = Num(0)
        /\ calls[i].carbon_mass = Num(7000)
        /\ calls[i].result = [raised |-> FALSE, score |-> 100]

-----------------------------------------------------------------------------
(* plot_forecast.  A timestamp is a number of ticks, MaxTimeOfDay + 1 ticks *)
(* to the day; a daily_emissions table is a sequence of rows                *)
(* [Date, Carbon_Footprint_kg] with the mass in milli-kg.  A fitted value   *)
(* is a quotient [num, den] with den > 0; the two coefficients of a fit     *)
(* share their denominator.                                                 *)

TicksPerDay == MaxTimeOfDay + 1

\* ts + timedelta(days=k)
AddDays(ts, k) == ts + k * TicksPerDay

MIN_POINTS == 5         \* len(daily_emissions) < 5
FORECAST_DAYS == 30     \* np.arange(n, n + 30), range(1, 31)

RECURSIVE SumSeq(_)
SumSeq(q) == IF q = <<>> THEN 0 ELSE Head(q) + SumSeq(Tail(q))

\* the sequence q without its i-th element
RemoveAt(q, i) == SubSeq(q, 1, i - 1) \o SubSeq(q, i + 1, Len(q))

\* daily_emissions.sort_values('Date'): ascending by Date
RECURSIVE sort_values(_)
sort_values(df) ==
    IF df = <<>> THEN <<>>
    ELSE LET i == CHOOSE i \in 1..Len(df) :
                    \A j \in 1..Len(df) :
                        \/ df[i].Date < df[j].Date
                        \/ (df[i].Date = df[j].Date /\ i <= j)
         IN  <<df[i]>> \o sort_values(RemoveAt(df, i))

\* np.polyfit(X, y, 1): the least-squares line through (X[i], y[i]), as
\* coef[0] = slope / den, coef[1] = intercept / den
polyfit(X, y) ==
    LET n == Len(X)
        Sx == SumSeq(X)
        Sy == SumSeq(y)
        Sxx == SumSeq([i \in 1..n |-> X[i] * X[i]])
        Sxy == SumSeq([i \in 1..n |-> X[i] * y[i]])
        D == n * Sxx - Sx * Sx
        A == n * Sxy - Sx * Sy
    IN  [slope |-> n * A, intercept |-> Sy * D - A * Sx, den |-> n * D]

\* np.poly1d(coef) evaluated with its coefficients in the other order
poly1d_fn_Swapped(coef, x) ==
    [num |-> coef.intercept * x + coef.slope, den |-> coef.den]

\* np.poly1d(coef)(x) = coef[0] * x + coef[1]
poly1d_fn(coef, x) ==
    [num |-> coef.slope * x + coef.intercept, den |-> coef.den]

\* future_days with the last historical index counted again
future_days_OffByOne(n) == [k \in 1..FORECAST_DAYS |-> n + k - 2]

\* np.arange(len(daily_emissions), len(daily_emissions) + 30)
future_days(n) == [k \in 1..FORECAST_DAYS |-> n + k - 1]

\* the return value None; fitted tells whether np.polyfit was called
None == [fig |-> FALSE, fitted |-> FALSE]

\* the figure of lines 335-343: its three traces
Figure(sorted, coef) ==
    LET n == Len(sorted)
        X == [i \in 1..n |-> i - 1]
        days == future_days(n)
    IN  [fig |-> TRUE,
         fitted |-> TRUE,
         coef |-> coef,
         historical |-> sorted,
         trend |-> [i \in 1..n |-> poly1d_fn(coef, X[i])],
         future_dates |-> [k \in 1..FORECAST_DAYS |-> AddDays(sorted[n].Date, k)],
         future_emissions |-> [k \in 1..FORECAST_DAYS |-> poly1d_fn(coef, days[k])]]

\* plot_forecast with the guard len(daily_emissions) <= 5
plot_forecast_LeqGuard(df) ==
    IF Len(df) = 0 \/ Len(df) <= MIN_POINTS THEN None
    ELSE LET sorted == sort_values(df)
             X == [i \in 1..Len(sorted) |-> i - 1]
             y == [i \in 1..Len(sorted) |-> sorted[i].Carbon_Footprint_kg]
         IN  IF Len(X) > 0 THEN Figure(sorted, polyfit(X, y)) ELSE None

\* plot_forecast(daily_emissions)
plot_forecast(df) ==
    IF Len(df) = 0 \/ Len(df) < MIN_POINTS THEN None
    ELSE LET sorted == sort_values(df)
             X == [i \in 1..Len(sorted) |-> i - 1]
             y == [i \in 1..Len(sorted) |-> sorted[i].Carbon_Footprint_kg]
         IN  IF Len(X) > 0 THEN Figure(sorted, polyfit(X, y)) ELSE None

-----------------------------------------------------------------------------
(* load_data and main(): one run of the script per interaction.  A table is *)
(* a sequence of rows; a Date is [nat, ts], NaT or a timestamp in ticks.    *)

\* the timestamp of time tod on day d
Ts(d, tod) == d * TicksPerDay + tod
DayOf(ts) == ts \div TicksPerDay

NaT == [nat |-> TRUE, ts |-> 0]

\* pd.to_datetime(.., dayfirst=True, errors='coerce') of one cell
to_datetime(cell) == IF cell.parses THEN [nat |-> FALSE, ts |-> cell.ts] ELSE NaT

\* fillna(value) of one cell; an empty cell of the file is read as NaN
fillna(cell, empty, value) == IF cell = empty THEN value ELSE cell

\* sel(row) of each row of df, in order; Keep is a set of indices
RECURSIVE Select(_, _)
Select(df, Keep) ==
    IF df = <<>> THEN <<>>
    ELSE LET rest == Select(Tail(df), {i - 1 : i \in Keep \ {1}})
         IN  IF 1 \in Keep THEN <<Head(df)>> \o rest ELSE rest

\* load_data without the Currency filter of lines 213-214
load_data_NoCurrencyFilter(file) ==
    IF ~file.exists THEN <<>>
    ELSE LET raw == file.rows
             dated == [i \in 1..Len(raw) |->
                         [raw[i] EXCEPT !.Date = to_datetime(raw[i].Date)]]
             expense == Select(dated, {i \in 1..Len(dated) :
                                        dated[i].IncomeExpense = "Expense"})
         IN  [i \in 1..Len(expense) |->
                [expense[i] EXCEPT
                    !.Category = fillna(@, "", "Other"),
                    !.Subcategory = fillna(@, Str(S_Empty), Str(S_General))]]

\* load_data(): the empty table when the file is missing
load_data(file) ==
    IF ~file.exists THEN <<>>
    ELSE LET raw == file.rows
             dated == [i \in 1..Len(raw) |->
                         [raw[i] EXCEPT !.Date = to_datetime(raw[i].Date)]]
             expense == Select(dated, {i \in 1..Len(dated) :
                                        dated[i].IncomeExpense = "Expense"})
             inr == IF file.has_currency
                       THEN Select(expense, {i \in 1..Len(expense) :
                                                expense[i].Currency = "INR"})
                       ELSE expense
         IN  [i \in 1..Len(inr) |->
                [inr[i] EXCEPT
                    !.Category = fillna(@, "", "Other"),
                    !.Subcategory = fillna(@, Str(S_Empty), Str(S_General))]]

\* what load_data() puts on the page: the st.error of line 208 when the file
\* is missing (st.cache_data replays the element on a cached call)
load_data_reports_Silent(file) == {}

load_data_reports(file) == IF ~file.exists THEN {"file_error"} ELSE {}

\* generate_explanation(row, factor, carbon_mass): the label, the factor and
\* the category of the sentence, and whether it is the 'Driven by' sentence
generate_explanation(r, f, cm) ==
    LET intensity_label == IF f > 120 THEN "High"
                           ELSE IF f > 50 THEN "Moderate"
                           ELSE "Low"
    IN  [label |-> intensity_label, factor |-> f, category |-> r.Category,
         driven |-> (intensity_label = "High")]

\* AttributeRow with a score that depends on whether a run came before
AttributeRow_Stateful(r) ==
    LET fc == calculate_footprint(r)
    IN  [Emission_Factor |-> fc[1],
         Carbon_Footprint_kg |-> fc[2],
         Explanation |-> generate_explanation(r, fc[1], fc[2]),
         Eco_Score |-> IF rpc = "init"
                          THEN calculate_eco_score(fc[2], r.Amount).score
                          ELSE 0] @@ r

\* lines 410-413 for one row of a table with an Amount column
AttributeRow(r) ==
    LET fc == calculate_footprint(r)
    IN  [Emission_Factor |-> fc[1],
         Carbon_Footprint_kg |-> fc[2],
         Explanation |-> generate_explanation(r, fc[1], fc[2]),
         Eco_Score |-> calculate_eco_score(fc[2], r.Amount).score] @@ r

\* Series.sum(): NaN is skipped
RECURSIVE SumSkipNa(_)
SumSkipNa(q) ==
    IF q = <<>> THEN 0
    ELSE (IF Head(q).nan THEN 0 ELSE Head(q).val) + SumSkipNa(Tail(q))

\* the Carbon_Footprint_kg column of df
CarbonColumn(df) == [i \in 1..Len(df) |-> df[i].Carbon_Footprint_kg]

\* the keys of a set of timestamps in ascending order
RECURSIVE SortedKeys(_)
SortedKeys(K) ==
    IF K = {} THEN <<>>
    ELSE LET k == CHOOSE k \in K : \A u \in K : k <= u
         IN  <<k>> \o SortedKeys(K \ {k})

\* df.groupby('Date')[['Carbon_Footprint_kg']].sum().reset_index(): one row
\* per distinct value of Date (NaT is dropped), in ascending order
groupby_Date_sum(df) ==
    LET keys == SortedKeys({df[i].Date.ts : i \in {j \in 1..Len(df) : ~df[j].Date.nat}})
    IN  [n \in 1..Len(keys) |->
            [Date |-> keys[n],
             Carbon_Footprint_kg |->
                SumSkipNa(CarbonColumn(Select(df, {i \in 1..Len(df) :
                    ~df[i].Date.nat /\ df[i].Date.ts = keys[n]})))]]

\* the days of the dates of df that are not NaT
ValidDays(df) == {DayOf(df[i].Date.ts) : i \in {j \in 1..Len(df) : ~df[j].Date.nat}}

\* what st.date_input(value=(min_date, max_date), min_value=min_date,
\* max_value=max_date) can return: a pair of days, or one day while the
\* selection is incomplete (no value is modelled for a table without a date)
DateInputs(df) ==
    IF ValidDays(df) = {} THEN {}
    ELSE LET lo == CHOOSE d \in ValidDays(df) : \A e \in ValidDays(df) : d <= e
             hi == CHOOSE d \in ValidDays(df) : \A e \in ValidDays(df) : e <= d
         IN  {r \in (lo..hi) \X (lo..hi) : r[1] <= r[2]}
                \cup {<<a>> : a \in lo..hi}

\* lines 402-407: the rows of the analysis period
FilterRows(df, range) ==
    IF Len(range) = 2
        THEN Select(df, {i \in 1..Len(df) :
                            /\ ~df[i].Date.nat
                            /\ df[i].Date.ts >= Ts(range[1], 0)
                            /\ df[i].Date.ts <= Ts(range[2], 0)})
        ELSE df

-----------------------------------------------------------------------------
(* Spec: the file, and the runs of main() on it *)

RawDate(d, tod) == [parses |-> TRUE, ts |-> Ts(d, tod)]
BadDate == [parses |-> FALSE, ts |-> 0]

RawRow(date, ie, cur, cat, sub, amount) ==
    [Date |-> date, IncomeExpense |-> ie, Currency |-> cur, Category |-> cat,
     Subcategory |-> Str(sub), Amount |-> amount]

\* the rows a file is made of, not in the order of their dates
RowPool ==
    <<RawRow(RawDate(2, 0), "Expense", "INR", "Gadgets", S_General, Num(0)),
      RawRow(RawDate(0, MaxTimeOfDay), "Expense", "INR", "Food", S_Vegetables, Num(500)),
      RawRow(RawDate(0, 0), "Expense", "INR", "Transportation", S_Air, Num(1000)),
      RawRow(RawDate(1, 0), "Expense", "INR", "Food", S_RedMeat, Num(250)),
      RawRow(RawDate(1, 0), "Expense", "INR", "", S_Empty, Num(250)),
      RawRow(RawDate(3, 0), "Expense", "INR", "Utilities", S_General, NaN),
      RawRow(BadDate, "Expense", "INR", "subscription", S_General, Num(1000)),
      RawRow(RawDate(1, 0), "Income", "INR", "Other", S_General, Num(1000)),
      RawRow(RawDate(2, 0), "Expense", "USD", "Food", S_General, Num(250))>>

\* the row r without the column col
DropColumn(r, col) == [f \in DOMAIN r \ {col} |-> r[f]]

\* the files: missing, or any rows of the pool in the order of the pool,
\* with all columns, without the Currency column or without the Amount column
File(Keep, dropped) ==
    LET picked == Select(RowPool, Keep)
    IN  [exists |-> TRUE,
         has_currency |-> dropped /= "Currency",
         has_amount |-> dropped /= "Amount",
         rows |-> [i \in 1..Len(picked) |->
                    IF dropped = "" THEN picked[i]
                    ELSE DropColumn(picked[i], dropped)]]

Files ==
    {[exists |-> FALSE]} \cup
    {File(Keep, dropped) :
        Keep \in SUBSET (1..Len(RowPool)), dropped \in {"", "Currency", "Amount"}}

Init ==
    /\ csv \in Files
    /\ data_df = <<>>
    /\ date_range = <<>>
    /\ filtered_df = <<>>
    /\ total_carbon = 0
    /\ shown = {}
    /\ rpc = "init"
    /\ daily_emissions = <<>>
    /\ fig_forecast = None
    /\ fpc = "idle"
    /\ EngineIdle
    /\ ScoreIdle
    /\ ChatIdle
    /\ WakeIdle
    /\ CartIdle
    /\ CalcIdle

\* load_data() under @st.cache_data: read on the first run, then the cached
\* table
cached_load_data == IF rpc = "init" THEN load_data(csv) ELSE data_df

\* nothing of this run is shown
NoOutput ==
    /\ filtered_df' = <<>>
    /\ total_carbon' = 0
    /\ daily_emissions' = <<>>
    /\ fig_forecast' = None

\* lines 384-386: the table is empty and main() returns
RenderHalted ==
    /\ cached_load_data = <<>>
    /\ data_df' = cached_load_data
    /\ date_range' = <<>>
    /\ rpc' = "halted"
    /\ shown' = load_data_reports(csv)
    /\ NoOutput
    /\ UNCHANGED <<csv, fpc, engineVars, scoreVars, chatVars,
                   wakeVars, cartVars, calcVars>>

\* lines 409-413 raise: x['Amount'] without an Amount column (KeyError), or
\* the assignment of the two result columns for a period without rows
RenderRaises(range) ==
    /\ cached_load_data /= <<>>
    /\ \/ ~csv.has_amount
       \/ FilterRows(cached_load_data, range) = <<>>
    /\ data_df' = cached_load_data
    /\ date_range' = range
    /\ rpc' = "error"
    /\ shown' = {"exception"}
    /\ NoOutput
    /\ UNCHANGED <<csv, fpc, engineVars, scoreVars, chatVars,
                   wakeVars, cartVars, calcVars>>

\* what a run that reaches line 415 puts on the page: the metrics (423-431),
\* the charts of sections 1 to 3 (438-556), the forecast chart only when
\* plot_forecast returned a figure (564-565), the explainer of the forecast
\* (566-571) and sections 4 to 6 (574-638)
Sections(fig) ==
    {"metrics", "charts", "forecast_explainer", "simulator",
     "recommendations", "offsets"}
        \cup (IF fig.fig THEN {"forecast_chart"} ELSE {})

\* Render with the derived columns written to the loaded table itself
Render_InPlace(range) ==
    /\ cached_load_data /= <<>>
    /\ csv.has_amount
    /\ FilterRows(cached_load_data, range) /= <<>>
    /\ LET df == cached_load_data
           filtered == FilterRows(df, range)
           attributed == [i \in 1..Len(filtered) |-> AttributeRow(filtered[i])]
           daily == groupby_Date_sum(attributed)
       IN  /\ data_df' = attributed
           /\ date_range' = range
           /\ filtered_df' = attributed
           /\ total_carbon' = SumSkipNa(CarbonColumn(attributed))
           /\ daily_emissions' = daily
           /\ fig_forecast' = plot_forecast(daily)
           /\ shown' = Sections(plot_forecast(daily))
           /\ rpc' = "rendered"
    /\ UNCHANGED <<csv, fpc, engineVars, scoreVars, chatVars,
                   wakeVars, cartVars, calcVars>>

\* a whole run of main(), lines 384-638, for the analysis period range
Render(range) ==
    /\ cached_load_data /= <<>>
    /\ csv.has_amount
    /\ FilterRows(cached_load_data, range) /= <<>>
    /\ LET df == cached_load_data
           filtered == FilterRows(df, range)
           attributed == [i \in 1..Len(filtered) |-> AttributeRow(filtered[i])]
           daily == groupby_Date_sum(attributed)
       IN  /\ data_df' = df
           /\ date_range' = range
           /\ filtered_df' = attributed
           /\ total_carbon' = SumSkipNa(CarbonColumn(attributed))
           /\ daily_emissions' = daily
           /\ fig_forecast' = plot_forecast(daily)
           /\ shown' = Sections(plot_forecast(daily))
           /\ rpc' = "rendered"
    /\ UNCHANGED <<csv, fpc, engineVars, scoreVars, chatVars,
                   wakeVars, cartVars, calcVars>>

Next ==
    \/ RenderHalted
    \/ \E range \in DateInputs(cached_load_data) : RenderRaises(range)
    \/ \E range \in DateInputs(cached_load_data) : Render(range)

Spec == Init /\ [][Next]_vars

\* the days on which filtered_df has a row
FilteredDays ==
    {DayOf(filtered_df[i].Date.ts) :
        i \in {j \in 1..Len(filtered_df) : ~filtered_df[j].Date.nat}}

\* the sum of Carbon_Footprint_kg over the rows of filtered_df dated on day d
CarbonOfDay(d) ==
    SumSkipNa(CarbonColumn(Select(filtered_df, {i \in 1..Len(filtered_df) :
        ~filtered_df[i].Date.nat /\ DayOf(filtered_df[i].Date.ts) = d})))

\* C10: for every day d of the filtered attributed table there is exactly one
\* aggregate given to the forecaster, and it is the sum of Carbon_Footprint_kg
\* over exactly the filtered rows dated d.
C10_OneAggregatePerDay ==
    rpc = "rendered" =>
        \A d \in FilteredDays :
            LET of_day == {n \in 1..Len(daily_emissions) :
                            DayOf(daily_emissions[n].Date) = d}
            IN  /\ Cardinality(of_day) = 1
                /\ \A n \in of_day :
                      daily_emissions[n].Carbon_Footprint_kg = CarbonOfDay(d)

\* C11: when the CSV file is missing, the run reports the error, the loaded
\* table is empty and main() returns at once: no row is attributed, nothing is
\* aggregated or forecast, and the error message is all the page shows.
C11_MissingFileHalts ==
    (rpc /= "init" /\ ~csv.exists) =>
        /\ rpc = "halted"
        /\ "file_error" \in shown
        /\ data_df = <<>>
        /\ filtered_df = <<>>
        /\ total_carbon = 0
        /\ daily_emissions = <<>>
        /\ fig_forecast = None
        /\ shown \ {"file_error"} = {}

\* main() has run without the file
C11_Witness ==
    /\ ~csv.exists
    /\ rpc = "halted"
    /\ shown = {"file_error"}

\* C12: when the per-day table of a run has fewer than 5 rows, the page
\* reports that there is too little data for a forecast, shows no forecast
\* chart, and the sections after the forecast are shown.
C12_InsufficiencyReported ==
    (rpc = "rendered" /\ Len(daily_emissions) < 5) =>
        /\ "forecast_insufficient" \in shown
        /\ "forecast_chart" \notin shown
        /\ {"simulator", "recommendations", "offsets"} \subseteq shown

ExpenseRowsOfFile ==
    {i \in 1..Len(csv.rows) : csv.rows[i].IncomeExpense = "Expense"}

Attributed(df, range) ==
    LET filtered == FilterRows(df, range)
    IN  [i \in 1..Len(filtered) |-> AttributeRow(filtered[i])]

DerivedColumns == {"Emission_Factor", "Carbon_Footprint_kg", "Explanation", "Eco_Score"}

C28_DailySumEqualsTotal ==
    rpc = "rendered" =>
        SumSeq([n \in 1..Len(daily_emissions) |->
                    daily_emissions[n].Carbon_Footprint_kg]) = total_carbon

-----------------------------------------------------------------------------
(* SpecForecast: plot_forecast on a table of distinct dates, in ascending   *)
(* or descending order.                                                     *)

Ticks == 0..MaxTick

Totals == {0, 3, 5}

\* the rows [Date |-> t, Carbon_Footprint_kg |-> f[t]] in ascending order of t
RECURSIVE Ascending(_)
Ascending(f) ==
    IF DOMAIN f = {} THEN <<>>
    ELSE LET t == CHOOSE t \in DOMAIN f : \A u \in DOMAIN f : t <= u
         IN  <<[Date |-> t, Carbon_Footprint_kg |-> f[t]]>>
             \o Ascending([u \in DOMAIN f \ {t} |-> f[u]])

Reverse(q) == [i \in 1..Len(q) |-> q[Len(q) + 1 - i]]

InitForecast ==
    /\ \E T \in SUBSET Ticks :
          /\ Cardinality(T) <= MaxPoints
          /\ \E f \in [T -> Totals], descending \in BOOLEAN :
                daily_emissions =
                    IF descending THEN Reverse(Ascending(f)) ELSE Ascending(f)
    /\ fig_forecast = None
    /\ fpc = "start"
    /\ EngineIdle
    /\ ScoreIdle
    /\ RenderIdle
    /\ ChatIdle
    /\ WakeIdle
    /\ CartIdle
    /\ CalcIdle

PlotForecast ==
    /\ fpc = "start"
    /\ fig_forecast' = plot_forecast(daily_emissions)
    /\ fpc' = "done"
    /\ UNCHANGED <<daily_emissions, engineVars, scoreVars, renderVars, chatVars,
                   wakeVars, cartVars, calcVars>>

NextForecast == PlotForecast

SpecForecast == InitForecast /\ [][NextForecast]_vars

\* C7: with fewer than 5 daily aggregates (none included) plot_forecast
\* returns None and calls no fit; with 5 or more it returns a forecast.
C7_ForecastNeedsFivePoints ==
    fpc = "done" =>
        /\ Len(daily_emissions) < 5 =>
                ~fig_forecast.fig /\ ~fig_forecast.fitted
        /\ Len(daily_emissions) >= 5 =>
                /\ fig_forecast.fig
                /\ fig_forecast.fitted
                /\ Len(fig_forecast.future_emissions) = 30

\* plot_forecast has returned None for a table of 4 rows
C7_Witness ==
    /\ fpc = "done"
    /\ Len(daily_emissions) = 4
    /\ fig_forecast = [fig |-> FALSE, fitted |-> FALSE]

\* the table has exactly 5 rows, all of the same total
FiveEqualTotals ==
    /\ Len(daily_emissions) = 5
    /\ \A i \in 1..5 :
          daily_emissions[i].Carbon_Footprint_kg = daily_emissions[1].Carbon_Footprint_kg

\* C8: for exactly 5 daily totals all equal to c the fit has slope 0 and
\* intercept c, and each of the 30 projected values equals c.
C8_FlatForecast ==
    (fpc = "done" /\ FiveEqualTotals) =>
        LET c == daily_emissions[1].Carbon_Footprint_kg
            co == fig_forecast.coef
            proj == fig_forecast.future_emissions
        IN  /\ fig_forecast.fig
            /\ co.den > 0
            /\ co.slope = 0
            /\ co.intercept = c * co.den
            /\ Len(proj) = 30
            /\ \A k \in 1..30 : proj[k].den > 0 /\ proj[k].num = c * proj[k].den

\* five totals of 3 milli-kg have been projected
C8_Witness ==
    /\ fpc = "done"
    /\ FiveEqualTotals
    /\ daily_emissions[1].Carbon_Footprint_kg = 3
    /\ fig_forecast.fig
    /\ fig_forecast.future_emissions[30].num = 3 * fig_forecast.future_emissions[30].den

\* the index of row i of daily_emissions in the order of the dates
DateRank(i) ==
    Cardinality({j \in 1..Len(daily_emissions) :
                    daily_emissions[j].Date < daily_emissions[i].Date})

\* the latest date of daily_emissions
LastDate ==
    CHOOSE d \in {daily_emissions[i].Date : i \in 1..Len(daily_emissions)} :
        \A j \in 1..Len(daily_emissions) : daily_emissions[j].Date <= d

\* C9: for n >= 5 daily totals the line a*x + b is the least-squares fit over
\* the indices 0..n-1 of the date-sorted rows (its residuals sum to 0 and are
\* orthogonal to the indices); there are exactly 30 projected pairs, the
\* k-th with value a*(n-1+k) + b and date last historical date + k days.
C9_LeastSquaresForecast ==
    (fpc = "done" /\ Len(daily_emissions) >= 5) =>
        LET n == Len(daily_emissions)
            co == fig_forecast.coef
            proj == fig_forecast.future_emissions
            res == [i \in 1..n |->
                        daily_emissions[i].Carbon_Footprint_kg * co.den
                            - co.slope * DateRank(i) - co.intercept]
        IN  /\ fig_forecast.fig
            /\ co.den > 0
            /\ SumSeq(res) = 0
            /\ SumSeq([i \in 1..n |-> DateRank(i) * res[i]]) = 0
            /\ Len(proj) = 30
            /\ Len(fig_forecast.future_dates) = 30
            /\ \A k \in 1..30 :
                  /\ proj[k].den > 0
                  /\ proj[k].num * co.den
                        = proj[k].den * (co.slope * (n - 1 + k) + co.intercept)
                  /\ fig_forecast.future_dates[k] = LastDate + k * (MaxTimeOfDay + 1)

\* a table given in descending order of its dates, with a rising trend, has
\* been projected
C9_Witness ==
    /\ fpc = "done"
    /\ Len(daily_emissions) = 5
    /\ daily_emissions[1].Date > daily_emissions[2].Date
    /\ daily_emissions[5].Date = 0
    /\ daily_emissions[1].Date = MaxTick
    /\ fig_forecast.fig
    /\ fig_forecast.coef.slope > 0
    /\ fig_forecast.future_dates[1] = MaxTick + MaxTimeOfDay + 1

-----------------------------------------------------------------------------
(* SpecChat: the chat of module1 (a form inside a popover, lines 689-759)   *)
(* and the chat of module2 (st.chat_input, src/module2.py lines 856-910).   *)
(* A message is its role and the number n of the question it is or answers; *)
(* the greeting is the assistant message 0.  An audio is the number of the  *)
(* reply it speaks, 0 is None.  groq counts, for each chat and question,    *)
(* the calls of chat.completions.create made while that question was the    *)
(* newest one, and how many of them raised.                                 *)

MaxQuestions == 2

MaxApiCalls == 3

Greeting == [role |-> "assistant", n |-> 0]

UserMessage(n) == [role |-> "user", n |-> n]

AssistantMessage(n) == [role |-> "assistant", n |-> n]

\* the number of user messages of a history
Asked(history) ==
    Cardinality({i \in 1..Len(history) : history[i].role = "user"})

NoCalls ==
    [calls |-> [n \in 1..MaxQuestions |-> 0],
     failed |-> [n \in 1..MaxQuestions |-> 0],
     last |-> "none"]

\* the log of one chat after a call for question n that succeeded (ok) or
\* raised
Called(log, n, ok) ==
    [calls |-> [log.calls EXCEPT ![n] = @ + 1],
     failed |-> IF ok THEN log.failed ELSE [log.failed EXCEPT ![n] = @ + 1],
     last |-> IF ok THEN "ok" ELSE "failed"]

\* the log of one chat after a run that made no call
NotCalled(log) == [log EXCEPT !.last = "none"]

\* both pages have run once: each history holds its greeting
InitChat ==
    /\ messages = <<Greeting>>
    /\ latest_audio = 0
    /\ chat_messages = <<Greeting>>
    /\ rerun_pending = FALSE
    /\ chat_error = [module1 |-> FALSE, module2 |-> FALSE]
    /\ groq = [module1 |-> NoCalls, module2 |-> NoCalls]
    /\ EngineIdle
    /\ ScoreIdle
    /\ ForecastIdle
    /\ RenderIdle
    /\ WakeIdle
    /\ CartIdle
    /\ CalcIdle

\* Module1Submit without line 714: the stored audio stays unless a new one
\* is made
Module1Submit_KeepsAudio(has_key, api_ok, voice_ok) ==
    /\ Asked(messages) < MaxQuestions
    /\ LET n == Asked(messages) + 1
           replied == has_key /\ api_ok
       IN  /\ messages' = messages \o <<UserMessage(n)>>
                            \o (IF replied THEN <<AssistantMessage(n)>> ELSE <<>>)
           /\ latest_audio' = IF replied /\ voice_ok THEN n ELSE latest_audio
           /\ chat_error' = [chat_error EXCEPT !.module1 = ~replied]
           /\ groq' = [groq EXCEPT !.module1 =
                            IF has_key THEN Called(@, n, api_ok) ELSE NotCalled(@)]
    /\ UNCHANGED <<chat_messages, rerun_pending, engineVars, scoreVars,
                   forecastVars, renderVars,
                   wakeVars, cartVars, calcVars>>

\* module1 lines 713-746: a run of main() in which the form was submitted
\* with a question.  has_key: a Groq_API key is found; api_ok: the call of
\* chat.completions.create returns; voice_ok: generate_voice returns bytes
Module1Submit(has_key, api_ok, voice_ok) ==
    /\ Asked(messages) < MaxQuestions
    /\ LET n == Asked(messages) + 1
           replied == has_key /\ api_ok
       IN  /\ messages' = messages \o <<UserMessage(n)>>
                            \o (IF replied THEN <<AssistantMessage(n)>> ELSE <<>>)
           /\ latest_audio' = IF replied /\ voice_ok THEN n ELSE 0
           /\ chat_error' = [chat_error EXCEPT !.module1 = ~replied]
           /\ groq' = [groq EXCEPT !.module1 =
                            IF has_key THEN Called(@, n, api_ok) ELSE NotCalled(@)]
    /\ UNCHANGED <<chat_messages, rerun_pending, engineVars, scoreVars,
                   forecastVars, renderVars,
                   wakeVars, cartVars, calcVars>>

\* module1: a run of main() in which no question was submitted (any other
\* widget changed, or the form was sent empty)
Module1Rerun ==
    /\ chat_error' = [chat_error EXCEPT !.module1 = FALSE]
    /\ groq' = [groq EXCEPT !.module1 = NotCalled(@)]
    /\ UNCHANGED <<messages, latest_audio, chat_messages, rerun_pending,
                   engineVars, scoreVars, forecastVars, renderVars,
                   wakeVars, cartVars, calcVars>>

\* module2 lines 875-879: a run in which st.chat_input returned a prompt; it
\* ends at st.rerun()
Module2Submit ==
    /\ ~rerun_pending
    /\ Asked(chat_messages) < MaxQuestions
    /\ chat_messages' = chat_messages \o <<UserMessage(Asked(chat_messages) + 1)>>
    /\ rerun_pending' = TRUE
    /\ chat_error' = [chat_error EXCEPT !.module2 = FALSE]
    /\ groq' = [groq EXCEPT !.module2 = NotCalled(@)]
    /\ UNCHANGED <<messages, latest_audio, engineVars, scoreVars,
                   forecastVars, renderVars,
                   wakeVars, cartVars, calcVars>>

\* Module2Run without the test of line 882: a reply is fetched whatever the
\* last message is
Module2Run_Unguarded(has_key, api_ok) ==
    /\ LET last == chat_messages[Len(chat_messages)]
       IN  /\ chat_messages' =
                  IF has_key /\ api_ok
                      THEN chat_messages \o <<AssistantMessage(last.n)>>
                      ELSE chat_messages
           /\ rerun_pending' = (has_key /\ api_ok)
           /\ chat_error' = [chat_error EXCEPT !.module2 = ~(has_key /\ api_ok)]
           /\ groq' = [groq EXCEPT !.module2 = NotCalled(@)]
    /\ UNCHANGED <<messages, latest_audio, engineVars, scoreVars,
                   forecastVars, renderVars,
                   wakeVars, cartVars, calcVars>>

\* module2 lines 882-910: a run without a prompt, started by st.rerun() or by
\* any widget of the page.  has_key: st.secrets has 'Groq_Offset'; api_ok:
\* the call of chat.completions.create returns
Module2Run(has_key, api_ok) ==
    /\ LET last == chat_messages[Len(chat_messages)]
       IN  IF last.role = "user"
               THEN IF ~has_key
                       THEN /\ chat_messages' = chat_messages
                            /\ rerun_pending' = FALSE
                            /\ chat_error' = [chat_error EXCEPT !.module2 = TRUE]
                            /\ groq' = [groq EXCEPT !.module2 = NotCalled(@)]
                       ELSE /\ groq.module2.calls[last.n] < MaxApiCalls
                            /\ chat_messages' =
                                   IF api_ok
                                       THEN chat_messages \o <<AssistantMessage(last.n)>>
                                       ELSE chat_messages
                            /\ rerun_pending' = api_ok
                            /\ chat_error' = [chat_error EXCEPT !.module2 = ~api_ok]
                            /\ groq' = [groq EXCEPT !.module2 = Called(@, last.n, api_ok)]
               ELSE /\ chat_messages' = chat_messages
                    /\ rerun_pending' = FALSE
                    /\ chat_error' = [chat_error EXCEPT !.module2 = FALSE]
                    /\ groq' = [groq EXCEPT !.module2 = NotCalled(@)]
    /\ UNCHANGED <<messages, latest_audio, engineVars, scoreVars,
                   forecastVars, renderVars,
                   wakeVars, cartVars, calcVars>>

NextChat ==
    \/ \E has_key, api_ok, voice_ok \in BOOLEAN :
            Module1Submit(has_key, api_ok, voice_ok)
    \/ Module1Rerun
    \/ Module2Submit
    \/ \E has_key, api_ok \in BOOLEAN : Module2Run(has_key, api_ok)

SpecChat == InitChat /\ [][NextChat]_vars

\* C18: in both chats a run whose API call raised shows an error message, and
\* a question whose call raised is never sent again: it has had one call.
C18_FailedCallNotRetried ==
    \A chat \in {"module1", "module2"} :
        /\ groq[chat].last = "failed" => chat_error[chat]
        /\ \A n \in 1..MaxQuestions :
              groq[chat].failed[n] > 0 => groq[chat].calls[n] = 1

\* C26: in the module2 chat no two assistant messages follow each other,
\* every reply directly follows the user message it answers (the newest one
\* at that time), and no user message has more than one reply.
C26_OneReplyPerQuestion ==
    /\ \A i \in 1..(Len(chat_messages) - 1) :
          ~(chat_messages[i].role = "assistant"
                /\ chat_messages[i + 1].role = "assistant")
    /\ \A i \in 2..Len(chat_messages) :
          chat_messages[i].role = "assistant" =>
              chat_messages[i - 1] = UserMessage(chat_messages[i].n)
    /\ \A n \in 1..MaxQuestions :
          Cardinality({i \in 1..Len(chat_messages) :
                          chat_messages[i] = AssistantMessage(n)}) <= 1

\* the first question failed once and was answered on a later run, the
\* second was answered at once
C26_Witness ==
    /\ chat_messages = <<Greeting, UserMessage(1), AssistantMessage(1),
                         UserMessage(2), AssistantMessage(2)>>
    /\ groq.module2.failed[1] = 1
    /\ groq.module2.calls[1] = 2

\* C27: in the module1 chat the stored audio, which every run plays, is None
\* or the speech of the reply to the newest question: once a newer question
\* is submitted the audio of an earlier reply is gone, also when the API
\* call or the speech synthesis fails.
C27_AudioIsOfNewestReply ==
    latest_audio /= 0 =>
        /\ latest_audio = Asked(messages)
        /\ messages[Len(messages)] = AssistantMessage(latest_audio)

\* the first question was answered and the call for the second one failed:
\* no audio is stored
C27_Witness ==
    /\ messages = <<Greeting, UserMessage(1), AssistantMessage(1), UserMessage(2)>>
    /\ groq.module1.last = "failed"
    /\ latest_audio = 0

-----------------------------------------------------------------------------
(* SpecWake: the wake-up script src/main.py.  A string is a sequence of     *)
(* one-character strings; the value of the environment variable is          *)
(* [set, val].  visited holds, for every call of wake_up_app, the url and   *)
(* how the call ended.                                                      *)

MaxEnvLen == 4

EnvChars == {"u", "v", ",", " "}

DEFAULT_URLS == << <<"d", "1">>, <<"d", "2">>, <<"d", "3">>, <<"d", "4">> >>

\* s.split(sep): the pieces of s between the occurrences of sep
RECURSIVE split(_, _)
split(s, sep) ==
    IF \A i \in 1..Len(s) : s[i] /= sep THEN <<s>>
    ELSE LET i == CHOOSE k \in 1..Len(s) :
                    s[k] = sep /\ \A j \in 1..(k - 1) : s[j] /= sep
         IN  <<SubSeq(s, 1, i - 1)>> \o split(SubSeq(s, i + 1, Len(s)), sep)

\* s.strip(): s without its leading and trailing blanks
RECURSIVE strip(_)
strip(s) ==
    IF s = <<>> THEN s
    ELSE IF Head(s) = " " THEN strip(Tail(s))
    ELSE IF s[Len(s)] = " " THEN strip(SubSeq(s, 1, Len(s) - 1))
    ELSE s

\* [url.strip() for url in pieces if url.strip()]
RECURSIVE StripNonEmpty(_)
StripNonEmpty(pieces) ==
    IF pieces = <<>> THEN <<>>
    ELSE (IF strip(Head(pieces)) /= <<>> THEN <<strip(Head(pieces))>> ELSE <<>>)
            \o StripNonEmpty(Tail(pieces))

\* get_urls that keeps the pieces as they are, blank ones included
get_urls_NoStrip(env) ==
    IF env.set /\ env.val /= <<>>
        THEN split(env.val, ",")
        ELSE DEFAULT_URLS

\* get_urls(): 'if env_urls:' is false for None and for the empty string
get_urls(env) ==
    IF env.set /\ env.val /= <<>>
        THEN StripNonEmpty(split(env.val, ","))
        ELSE DEFAULT_URLS

\* how one call of wake_up_app and the sleep after it can end: no button
\* (TimeoutException, line 62), button clicked and gone, button clicked and
\* still there (line 59), any other Exception (line 66), or an exception
\* that is no Exception (KeyboardInterrupt), which escapes
Outcomes == {"awake", "woken", "stuck", "error", "interrupt"}

EnvValues ==
    {[set |-> FALSE, val |-> <<>>]} \cup
    {[set |-> TRUE, val |-> v] :
        v \in UNION {[1..n -> EnvChars] : n \in 0..MaxEnvLen}}

InitWake ==
    /\ env_urls \in EnvValues
    /\ urls = <<>>
    /\ driver = "none"
    /\ quits = 0
    /\ visited = <<>>
    /\ interrupted = FALSE
    /\ exit_status = 0
    /\ wpc = "start"
    /\ EngineIdle
    /\ ScoreIdle
    /\ ForecastIdle
    /\ RenderIdle
    /\ ChatIdle
    /\ CartIdle
    /\ CalcIdle

\* main lines 70-76: without urls main() returns
GetUrls ==
    /\ wpc = "start"
    /\ urls' = get_urls(env_urls)
    /\ wpc' = IF get_urls(env_urls) = <<>> THEN "done" ELSE "init"
    /\ UNCHANGED <<env_urls, driver, quits, visited, interrupted, exit_status,
                   engineVars, scoreVars, forecastVars, renderVars, chatVars,
                   cartVars, calcVars>>

\* main lines 86-91: webdriver.Chrome(..) returns (ok) or raises, and then
\* exit(1)
InitDriver(ok) ==
    /\ wpc = "init"
    /\ driver' = IF ok THEN "live" ELSE "none"
    /\ exit_status' = IF ok THEN exit_status ELSE 1
    /\ wpc' = IF ok THEN "loop" ELSE "done"
    /\ UNCHANGED <<env_urls, urls, quits, visited, interrupted,
                   engineVars, scoreVars, forecastVars, renderVars, chatVars,
                   cartVars, calcVars>>

\* WakeUpApp with the loop left at the first error
WakeUpApp_StopsOnError(outcome) ==
    /\ wpc = "loop"
    /\ Len(visited) < Len(urls)
    /\ visited' = Append(visited, [url |-> urls[Len(visited) + 1],
                                   outcome |-> outcome])
    /\ interrupted' = (outcome \in {"interrupt", "error"})
    /\ wpc' = IF outcome \in {"interrupt", "error"} \/ Len(visited) + 1 = Len(urls)
                 THEN "finally" ELSE "loop"
    /\ UNCHANGED <<env_urls, urls, driver, quits, exit_status,
                   engineVars, scoreVars, forecastVars, renderVars, chatVars,
                   cartVars, calcVars>>

\* main lines 94-97: one turn of the loop, wake_up_app (33-67) and the sleep
WakeUpApp(outcome) ==
    /\ wpc = "loop"
    /\ Len(visited) < Len(urls)
    /\ visited' = Append(visited, [url |-> urls[Len(visited) + 1],
                                   outcome |-> outcome])
    /\ interrupted' = (outcome = "interrupt")
    /\ wpc' = IF outcome = "interrupt" \/ Len(visited) + 1 = Len(urls)
                 THEN "finally" ELSE "loop"
    /\ UNCHANGED <<env_urls, urls, driver, quits, exit_status,
                   engineVars, scoreVars, forecastVars, renderVars, chatVars,
                   cartVars, calcVars>>

\* Finally without the finally clause: the driver is quit only when the loop
\* ended normally
Finally_OnlyAfterLoop ==
    /\ wpc = "finally"
    /\ driver' = IF driver = "live" /\ ~interrupted THEN "quit" ELSE driver
    /\ quits' = IF driver = "live" /\ ~interrupted THEN quits + 1 ELSE quits
    /\ exit_status' = IF interrupted THEN 130 ELSE 0
    /\ wpc' = "done"
    /\ UNCHANGED <<env_urls, urls, visited, interrupted,
                   engineVars, scoreVars, forecastVars, renderVars, chatVars,
                   cartVars, calcVars>>

\* main lines 99-103: the finally clause; an escaped KeyboardInterrupt then
\* ends the script with status 130
Finally ==
    /\ wpc = "finally"
    /\ driver' = IF driver = "live" THEN "quit" ELSE driver
    /\ quits' = IF driver = "live" THEN quits + 1 ELSE quits
    /\ exit_status' = IF interrupted THEN 130 ELSE 0
    /\ wpc' = "done"
    /\ UNCHANGED <<env_urls, urls, visited, interrupted,
                   engineVars, scoreVars, forecastVars, renderVars, chatVars,
                   cartVars, calcVars>>

NextWake ==
    \/ GetUrls
    \/ \E ok \in BOOLEAN : InitDriver(ok)
    \/ \E outcome \in Outcomes : WakeUpApp(outcome)
    \/ Finally

SpecWake == InitWake /\ [][NextWake]_vars

\* the urls of the calls of wake_up_app, in order
VisitedUrls == [i \in 1..Len(visited) |-> visited[i].url]

\* the entries of the environment variable: trimmed, blank ones dropped
EnvEntries == StripNonEmpty(split(env_urls.val, ","))

\* every url is free of commas and of blanks at its ends, and not empty
WellFormedUrls ==
    \A i \in 1..Len(urls) :
        /\ urls[i] /= <<>>
        /\ urls[i][1] /= " "
        /\ urls[i][Len(urls[i])] /= " "
        /\ \A k \in 1..Len(urls[i]) : urls[i][k] /= ","

\* the script ended after a loop that no exception escaped
LoopCompleted == wpc = "done" /\ driver /= "none" /\ ~interrupted

\* C21 as stated: whenever the variable is set, get_urls returns its entries.
C21_EnvUrlsWhenSet ==
    wpc /= "start" =>
        urls = IF env_urls.set THEN EnvEntries ELSE DEFAULT_URLS

\* C21: get_urls returns the trimmed non-empty entries of STREAMLIT_APP_URLS
\* when the variable is set to a non-empty string, and DEFAULT_URLS when it
\* is unset or empty; the script visits exactly the returned list.
C21_EnvUrlsWhenNonEmpty ==
    wpc /= "start" =>
        /\ urls = IF env_urls.set /\ env_urls.val /= <<>>
                     THEN EnvEntries ELSE DEFAULT_URLS
        /\ WellFormedUrls
        /\ LoopCompleted => VisitedUrls = urls

\* the variable ' u,v' has been read and both urls visited
C21_Witness ==
    /\ env_urls = [set |-> TRUE, val |-> <<" ", "u", ",", "v">>]
    /\ urls = << <<"u">>, <<"v">> >>
    /\ LoopCompleted
    /\ VisitedUrls = urls

\* C22: the urls are visited in list order, each once, and an error or a
\* timeout on one url does not stop the loop: unless an exception that is no
\* Exception escapes, the script ends with every url visited.
C22_EveryUrlVisitedOnce ==
    /\ Len(visited) <= Len(urls)
    /\ VisitedUrls = SubSeq(urls, 1, Len(visited))
    /\ LoopCompleted => Len(visited) = Len(urls)
    /\ (wpc \in {"finally", "done"} /\ driver /= "none" /\ Len(visited) < Len(urls))
            => visited[Len(visited)].outcome = "interrupt"

\* the first url failed, the second timed out, and all four were visited
C22_Witness ==
    /\ LoopCompleted
    /\ Len(urls) = 4
    /\ Len(visited) = 4
    /\ visited[1].outcome = "error"
    /\ visited[2].outcome = "stuck"

\* C23: a driver that was created is quit exactly once before the script
\* ends, also when an exception escaped the loop; when the driver cannot be
\* created the script ends with status 1 and no visit; without urls no
\* driver is created.
C23_DriverQuitOnce ==
    /\ quits <= 1
    /\ driver = "live" => wpc \in {"loop", "finally"}
    /\ driver = "none" => visited = <<>> /\ quits = 0
    /\ wpc = "done" =>
          /\ driver /= "none" => driver = "quit" /\ quits = 1
          /\ (driver = "none" /\ urls /= <<>>) => exit_status = 1
          /\ urls = <<>> => driver = "none" /\ exit_status = 0

\* an exception escaped the loop at the second url and the driver was quit
C23_Witness ==
    /\ wpc = "done"
    /\ interrupted
    /\ Len(visited) = 2
    /\ Len(urls) > 2
    /\ driver = "quit"
    /\ quits = 1

-----------------------------------------------------------------------------
(* SpecCart: the offset cart of the marketplace page (src/module2.py).  One *)
(* action is one interaction: the run of main() that handles it and, where  *)
(* the handler calls st.rerun(), the run that follows.  shown_cart holds    *)
(* the cart figures the page shows when the interaction is over: the count  *)
(* on the cart button, the 'Offset Status' and the 'Net Zero Gap'.          *)

MaxCart == 3

\* name and price_per_tonne of two of the PROJECTS
PROJECTS ==
    {[name |-> "Sundarbans Mangrove Restoration", price_per_tonne |-> 1200],
     [name |-> "Rajasthan Solar Park Initiative", price_per_tonne |-> 650]}

\* values of the 'Amount (kg)' slider
OffsetAmounts == {0, 100, 2000}

\* values of load_user_footprint(), the fallback 1250 among them
Footprints == {150, 1250}

\* sum(item['amount'] for item in cart)
OffsetsInCart(c) == SumSeq([k \in 1..Len(c) |-> c[k].amount])

\* max(0, current_footprint - offsets_in_cart)
NetGap(footprint, offsets) ==
    IF footprint - offsets > 0 THEN footprint - offsets ELSE 0

\* the figures of a run: cart_count is taken from the cart as it is at line
\* 640, the other two from the cart as it is at line 702
Figures(at_640, at_702) ==
    [cart_count |-> Len(at_640),
     offsets_in_cart |-> OffsetsInCart(at_702),
     net_gap |-> NetGap(current_footprint, OffsetsInCart(at_702))]

InitCart ==
    /\ cart = <<>>
    /\ current_footprint \in Footprints
    /\ shown_cart = [cart_count |-> 0, offsets_in_cart |-> 0,
                     net_gap |-> current_footprint]
    /\ last_op = [op |-> "open"]
    /\ EngineIdle
    /\ ScoreIdle
    /\ ForecastIdle
    /\ RenderIdle
    /\ ChatIdle
    /\ WakeIdle
    /\ CalcIdle

\* lines 815-821: 'Add' of a project with the slider at offset_amount, and
\* the run after st.rerun()
CartAdd(project, offset_amount) ==
    /\ Len(cart) < MaxCart
    /\ LET item == [name |-> project.name, amount |-> offset_amount,
                    price |-> project.price_per_tonne]
       IN  /\ cart' = Append(cart, item)
           /\ shown_cart' = Figures(Append(cart, item), Append(cart, item))
           /\ last_op' = [op |-> "add", item |-> item]
    /\ UNCHANGED <<current_footprint, engineVars, scoreVars, forecastVars,
                   renderVars, chatVars, wakeVars, calcVars>>

\* CartDelete that always removes the last item
CartDelete_Last(i) ==
    /\ i \in 1..Len(cart)
    /\ cart' = RemoveAt(cart, Len(cart))
    /\ shown_cart' = Figures(RemoveAt(cart, Len(cart)), RemoveAt(cart, Len(cart)))
    /\ last_op' = [op |-> "delete", index |-> i]
    /\ UNCHANGED <<current_footprint, engineVars, scoreVars, forecastVars,
                   renderVars, chatVars, wakeVars, calcVars>>

\* lines 662-664: the delete button of the i-th item (cart.pop(i - 1)), and
\* the run after st.rerun()
CartDelete(i) ==
    /\ i \in 1..Len(cart)
    /\ cart' = RemoveAt(cart, i)
    /\ shown_cart' = Figures(RemoveAt(cart, i), RemoveAt(cart, i))
    /\ last_op' = [op |-> "delete", index |-> i]
    /\ UNCHANGED <<current_footprint, engineVars, scoreVars, forecastVars,
                   renderVars, chatVars, wakeVars, calcVars>>

\* lines 673-676: 'Complete Purchase', shown only for a cart with items; the
\* cart is emptied after the cart button was drawn and no st.rerun() follows
CompletePurchase ==
    /\ cart /= <<>>
    /\ cart' = <<>>
    /\ shown_cart' = Figures(cart, <<>>)
    /\ last_op' = [op |-> "purchase"]
    /\ UNCHANGED <<current_footprint, engineVars, scoreVars, forecastVars,
                   renderVars, chatVars, wakeVars, calcVars>>

\* a run for any other interaction of the page (filters, sliders, chat)
CartRerun ==
    /\ shown_cart' = Figures(cart, cart)
    /\ last_op' = [op |-> "other"]
    /\ UNCHANGED <<cart, current_footprint, engineVars, scoreVars, forecastVars,
                   renderVars, chatVars, wakeVars, calcVars>>

NextCart ==
    \/ \E project \in PROJECTS, offset_amount \in OffsetAmounts :
            CartAdd(project, offset_amount)
    \/ \E i \in 1..MaxCart : CartDelete(i)
    \/ CompletePurchase
    \/ CartRerun

SpecCart == InitCart /\ [][NextCart]_vars

\* what 'Add' and the delete button do to the cart in a step
AddAndDeleteKeepOrder ==
    /\ last_op'.op = "add" =>
          /\ Len(cart') = Len(cart) + 1
          /\ \A k \in 1..Len(cart) : cart'[k] = cart[k]
          /\ cart'[Len(cart')] = last_op'.item
          /\ DOMAIN last_op'.item = {"name", "amount", "price"}
    /\ last_op'.op = "delete" =>
          /\ Len(cart') = Len(cart) - 1
          /\ \A k \in 1..Len(cart') :
                cart'[k] = IF k < last_op'.index THEN cart[k] ELSE cart[k + 1]

\* C24 as stated: 'Add' appends one item, the delete button removes the item
\* at its index and keeps the order of the others, and no other interaction
\* changes the cart.
C24_OnlyAddAndDeleteChange ==
    [][/\ AddAndDeleteKeepOrder
       /\ last_op'.op \notin {"add", "delete"} => cart' = cart]_vars

\* C24: 'Add' appends one item {name, amount, price} and changes no other,
\* the delete button removes the item at its index and keeps the order of
\* the others, 'Complete Purchase' empties the cart, and no other
\* interaction changes the cart.
C24_CartIsOrderedLog ==
    [][/\ AddAndDeleteKeepOrder
       /\ last_op'.op = "purchase" => cart' = <<>>
       /\ last_op'.op \notin {"add", "delete", "purchase"} => cart' = cart]_vars

\* the first of three items has been deleted
C24_Witness ==
    /\ last_op = [op |-> "delete", index |-> 1]
    /\ Len(cart) = 2
    /\ cart[1].amount = 100
    /\ cart[2].amount = 2000

\* C25: after 'Complete Purchase' the cart is empty; the cart count, the
\* offset status and the net zero gap on the page are those of the cart as
\* it is, so those of the empty cart after a purchase; the net zero gap is
\* max(0, footprint - sum of the cart amounts) and never negative.
C25_FiguresReflectCart ==
    /\ last_op.op = "purchase" => cart = <<>>
    /\ shown_cart.cart_count = Len(cart)
    /\ shown_cart.offsets_in_cart = OffsetsInCart(cart)
    /\ shown_cart.net_gap >= 0
    /\ shown_cart.net_gap >= current_footprint - OffsetsInCart(cart)
    /\ shown_cart.net_gap \in {0, current_footprint - OffsetsInCart(cart)}

-----------------------------------------------------------------------------
(* SpecCalc: the calculator endpoint, as the standalone app (src/app.py)    *)
(* and as the serverless handler (src/api/index.py).  Amounts are in tenths *)
(* and factors in hundredths, so amount * factor is in thousandths; co2 is  *)
(* in hundredths.  round(x, 2) of a product that lies exactly between two   *)
(* hundredths goes where the binary double of the product lies: tie_up      *)
(* says whether that is the upper one.                                      *)

MaxTenths == 15

\* EMISSION_FACTORS of src/app.py
EMISSION_FACTORS_app ==
    [travel |-> 57, transport |-> 42, food |-> 35, retail |-> 18, digital |-> 2]

\* EMISSION_FACTORS of src/api/index.py
EMISSION_FACTORS_api ==
    [travel |-> 57, transport |-> 42, food |-> 35, retail |-> 18, digital |-> 2]

JsonString(v) == [kind |-> "string", val |-> v]

JsonNumber(tenths) == [kind |-> "number", tenths |-> tenths]

\* a JSON string that float() parses to tenths / 10
JsonNumeral(tenths) == [kind |-> "numeral", tenths |-> tenths]

JsonNull == [kind |-> "null"]

JsonList == [kind |-> "list"]

\* dict.get(key, default)
DictGet(data, key, default) == IF key \in DOMAIN data THEN data[key] ELSE default

\* float(v): [raised, tenths]; None, a list and a string that is no number
\* raise
float(v) ==
    IF v.kind \in {"number", "numeral"}
        THEN [raised |-> FALSE, tenths |-> v.tenths]
        ELSE [raised |-> TRUE, tenths |-> 0]

\* the factor of category: a list is unhashable and raises
FactorOf(factors, category) ==
    IF category.kind = "list" THEN [raised |-> TRUE, factor |-> 0]
    ELSE IF category.kind = "string" /\ category.val \in DOMAIN factors
        THEN [raised |-> FALSE, factor |-> factors[category.val]]
    ELSE [raised |-> FALSE, factor |-> 20]

\* round(x, 2) of x = thousandths / 1000, in hundredths
round2(thousandths, up) ==
    LET q == thousandths \div 10
        r == thousandths % 10
    IN  IF r > 5 \/ (r = 5 /\ up) THEN q + 1 ELSE q

ErrorResponse == [status |-> "error", code |-> 500]

\* calculate of src/app.py, lines 22-54
calculate_app(body, up) ==
    IF ~body.is_object THEN ErrorResponse
    ELSE LET data == body.data
             category == DictGet(data, "category", JsonString("retail"))
             amount == float(DictGet(data, "amount", JsonNumber(0)))
             used == FactorOf(EMISSION_FACTORS_app, category)
             co2_impact == round2(amount.tenths * used.factor, up)
         IN  IF amount.raised \/ used.raised THEN ErrorResponse
             ELSE [status |-> "success", code |-> 200, co2 |-> co2_impact,
                   insight |->
                        IF category = JsonString("travel") /\ co2_impact > 10000
                            THEN "rail"
                        ELSE IF category = JsonString("food") /\ co2_impact > 2000
                            THEN "local"
                        ELSE IF category = JsonString("digital") THEN "digital"
                        ELSE "analyzed",
                   factor_used |-> used.factor]

\* calculate_api with the co2 cut off after 2 decimals
calculate_api_Truncated(body, up) ==
    IF ~body.is_object THEN ErrorResponse
    ELSE LET data == body.data
             category == DictGet(data, "category", JsonString("retail"))
             amount == float(DictGet(data, "amount", JsonNumber(0)))
             used == FactorOf(EMISSION_FACTORS_api, category)
             co2_impact == (amount.tenths * used.factor) \div 10
         IN  IF amount.raised \/ used.raised THEN ErrorResponse
             ELSE [status |-> "success", code |-> 200, co2 |-> co2_impact,
                   insight |-> "processed"]

\* calculate of src/api/index.py, lines 17-43
calculate_api(body, up) ==
    IF ~body.is_object THEN ErrorResponse
    ELSE LET data == body.data
             category == DictGet(data, "category", JsonString("retail"))
             amount == float(DictGet(data, "amount", JsonNumber(0)))
             used == FactorOf(EMISSION_FACTORS_api, category)
             co2_impact == round2(amount.tenths * used.factor, up)
         IN  IF amount.raised \/ used.raised THEN ErrorResponse
             ELSE [status |-> "success", code |-> 200, co2 |-> co2_impact,
                   insight |->
                        IF category = JsonString("travel") /\ co2_impact > 10000
                            THEN "rail"
                        ELSE IF category = JsonString("food") /\ co2_impact > 2000
                            THEN "local"
                        ELSE IF category = JsonString("digital") THEN "digital"
                        ELSE "processed"]

\* the values of 'category' and of 'amount' in a request
CategoryValues ==
    {JsonString(c) : c \in {"travel", "transport", "food", "retail", "digital",
                            "luxury"}} \cup {JsonNull, JsonList}

AmountTenths == (0..MaxTenths) \cup {-25, 605, 2000}

AmountValues ==
    {JsonNumber(t) : t \in AmountTenths} \cup {JsonNumeral(t) : t \in AmountTenths}
        \cup {JsonString("abc"), JsonNull}

\* no JSON object (null, a list), or an object with or without 'category'
\* and 'amount'
Bodies ==
    {[is_object |-> FALSE]} \cup
    {[is_object |-> TRUE, data |-> d] :
        d \in {[category |-> c, amount |-> a] :
                    c \in CategoryValues, a \in AmountValues}
                \cup {[category |-> c] : c \in CategoryValues}
                \cup {[amount |-> a] : a \in AmountValues}
                \cup {<<>>}}

InitCalc ==
    /\ request \in Bodies
    /\ tie_up \in BOOLEAN
    /\ response_app = <<>>
    /\ response_api = <<>>
    /\ EngineIdle
    /\ ScoreIdle
    /\ ForecastIdle
    /\ RenderIdle
    /\ ChatIdle
    /\ WakeIdle
    /\ CartIdle

\* the request is sent to the standalone app
CalculateApp ==
    /\ response_app = <<>>
    /\ response_app' = calculate_app(request, tie_up)
    /\ UNCHANGED <<request, tie_up, response_api, engineVars, scoreVars,
                   forecastVars, renderVars, chatVars, wakeVars, cartVars>>

\* the same request is sent to the serverless handler
CalculateApi ==
    /\ response_api = <<>>
    /\ response_api' = calculate_api(request, tie_up)
    /\ UNCHANGED <<request, tie_up, response_app, engineVars, scoreVars,
                   forecastVars, renderVars, chatVars, wakeVars, cartVars>>

NextCalc == CalculateApp \/ CalculateApi

SpecCalc == InitCalc /\ [][NextCalc]_vars

\* the request is an object whose amount, if any, is a number or a numeral,
\* and whose category, if any, is a string or null
WellFormedRequest ==
    /\ request.is_object
    /\ "amount" \in DOMAIN request.data =>
            request.data.amount.kind \in {"number", "numeral"}
    /\ "category" \in DOMAIN request.data =>
            request.data.category.kind \in {"string", "null"}

\* amount and factor as the claim names them
ClaimedTenths ==
    IF "amount" \in DOMAIN request.data THEN request.data.amount.tenths ELSE 0

ClaimedFactor ==
    LET category == IF "category" \in DOMAIN request.data
                       THEN request.data.category ELSE JsonString("retail")
    IN  IF category = JsonString("travel") THEN 57
        ELSE IF category = JsonString("transport") THEN 42
        ELSE IF category = JsonString("food") THEN 35
        ELSE IF category = JsonString("retail") THEN 18
        ELSE IF category = JsonString("digital") THEN 2
        ELSE 20

\* co2 (hundredths) is a nearest hundredth of amount * factor
IsRounded(co2) ==
    LET exact == ClaimedTenths * ClaimedFactor
    IN  /\ 10 * co2 - exact <= 5
        /\ exact - 10 * co2 <= 5
        /\ exact % 10 /= 5 => (10 * co2 - exact < 5 /\ exact - 10 * co2 < 5)

\* C29: for a well-formed request each endpoint returns co2 = amount *
\* factor rounded to 2 decimals, with the factor of a known category, 0.2
\* for any other, category 'retail' and amount 0 when absent; for every
\* request the two endpoints return the same co2, or both an error.
C29_CalculatorsAgree ==
    /\ (response_app /= <<>> /\ WellFormedRequest) =>
            response_app.status = "success" /\ IsRounded(response_app.co2)
    /\ (response_api /= <<>> /\ WellFormedRequest) =>
            response_api.status = "success" /\ IsRounded(response_api.co2)
    /\ (response_app /= <<>> /\ response_api /= <<>>) =>
            /\ response_app.status = response_api.status
            /\ response_app.code = response_api.code
            /\ response_app.status = "success" => response_app.co2 = response_api.co2

\* the amount '60.5' of an unknown category has been answered by both
\* endpoints with co2 12.1 and with different insights
C29_Witness ==
    /\ response_app /= <<>>
    /\ response_api /= <<>>
    /\ request.is_object
    /\ DOMAIN request.data = {"category", "amount"}
    /\ request.data.category = JsonString("luxury")
    /\ request.data.amount = JsonNumeral(605)
    /\ response_app.co2 = 1210
    /\ response_api.co2 = 1210
    /\ response_app.insight /= response_api.insight

=============================================================================
